---- MODULE Spec2Model ----
(***************************************************************************)
(* The undo/redo engine of darktable, src/common/undo.c: the two lists of  *)
(* recorded items, the group (transaction) tracker, the replay with its    *)
(* time-window coalescing, clear, and the locked flag that drops a record  *)
(* asked from inside an undo callback.                                     *)
(*                                                                         *)
(* Time is counted in tenths of a second.  An item is the dt_undo_item_t   *)
(* record: id stands for the identity of the item and of its data pointer, *)
(* free_data is TRUE when the free_data callback is not NULL.  A sentinel  *)
(* (is_group) has NULL data, undo and free_data.                           *)
(***************************************************************************)
EXTENDS Integers, Sequences, FiniteSets

VARIABLES
  undo_list,     \* self->undo_list, newest first
  redo_list,     \* self->redo_list, newest first
  disable_next,  \* self->disable_next
  locked,        \* self->locked
  group,         \* self->group
  group_indent,  \* self->group_indent
  now,           \* the wall clock read by dt_get_wtime(), in tenths of a second
  nextId,        \* the next item / payload identity to hand out
  status,        \* "live", "aborted" (failed assert) or "destroyed" (after cleanup)
  last,          \* observer: the call that led to this state
  log,           \* observer: the undo callbacks that call invoked, in order
  rel,           \* observer: the data that call released, in order
  released,      \* observer: how often each payload was released so far
  mutex,         \* self->mutex: the set of the threads that hold it, at most one
  thread         \* for each thread, where it is in the call it makes

vars == <<undo_list, redo_list, disable_next, locked, group, group_indent,
          now, nextId, status, last, log, rel, released, mutex, thread>>

----------------------------------------------------------------------------
(* Bounds of the model *)

MaxItems == 3
MaxTime == 7
MaxDepth == 2

(* Program constants *)

MAX_TIME_PERIOD == 5
DT_UNDO_NONE == 0
DT_UNDO_ALL == 3

Kinds == {1, 2}
Masks == {1, 2, 3}
DT_ACTION_UNDO == "UNDO"
DT_ACTION_REDO == "REDO"

----------------------------------------------------------------------------
(* Helpers *)

RECURSIVE BitAnd(_, _)
BitAnd(a, b) ==
  IF a = 0 \/ b = 0 THEN 0
  ELSE (a % 2) * (b % 2) + 2 * BitAnd(a \div 2, b \div 2)

fabs(x) == IF x < 0 THEN 0 - x ELSE x

Matches(item, filter) == BitAnd(item.type, filter) # 0

(* g_list_append in place of g_list_prepend: the item goes to the end. *)
g_list_append(list, item) == Append(list, item)

g_list_prepend(list, item) == <<item>> \o list

RECURSIVE g_list_remove(_, _)
g_list_remove(list, item) ==
  IF list = <<>> THEN <<>>
  ELSE IF Head(list).id = item.id THEN Tail(list)
  ELSE <<Head(list)>> \o g_list_remove(Tail(list), item)

NewItem(id, type, is_group, free_data, ts) ==
  [id |-> id, type |-> type, ts |-> ts, is_group |-> is_group, free_data |-> free_data]

(* The engine as the functions see it, with the callbacks a call invokes. *)
Self ==
  [undo_list |-> undo_list, redo_list |-> redo_list,
   disable_next |-> disable_next, locked |-> locked,
   group |-> group, group_indent |-> group_indent,
   log |-> <<>>, rel |-> <<>>, blocked |-> FALSE, aborted |-> FALSE]

(* The mutex is not recursive: a LOCK while it is held never returns. *)
LOCK(s) == IF s.locked THEN [s EXCEPT !.blocked = TRUE] ELSE [s EXCEPT !.locked = TRUE]

UNLOCK(s) == [s EXCEPT !.locked = FALSE]

free_undo_data(s, item) ==
  IF item.free_data THEN [s EXCEPT !.rel = Append(@, item.id)] ELSE s

RECURSIVE g_list_free_full(_, _)
g_list_free_full(s, list) ==
  IF list = <<>> THEN s
  ELSE g_list_free_full(free_undo_data(s, Head(list)), Tail(list))

(* undo_record without lines 110-111: the redo list survives a record. *)
undo_record_keeps_redo(s, item) ==
  IF s.disable_next
  THEN [free_undo_data(s, item) EXCEPT !.disable_next = FALSE]
  ELSE IF ~s.locked
       THEN UNLOCK([LOCK(s) EXCEPT !.undo_list = g_list_prepend(@, item)])
       ELSE s

(* undo_record without line 86: the flag stays set after a suppressed record. *)
undo_record_keeps_flag(s, item) ==
  IF s.disable_next
  THEN free_undo_data(s, item)
  ELSE IF ~s.locked
       THEN LET s2 == [LOCK(s) EXCEPT !.undo_list = g_list_prepend(@, item)]
            IN UNLOCK([g_list_free_full(s2, s2.redo_list) EXCEPT !.redo_list = <<>>])
       ELSE s

(* undo_record without the test of line 93: it locks whatever self->locked. *)
undo_record_no_lock_check(s, item) ==
  IF s.disable_next
  THEN [free_undo_data(s, item) EXCEPT !.disable_next = FALSE]
  ELSE LET s2 == [LOCK(s) EXCEPT !.undo_list = g_list_prepend(@, item)]
       IN UNLOCK([g_list_free_full(s2, s2.redo_list) EXCEPT !.redo_list = <<>>])

undo_record(s, item) ==
  IF s.disable_next
  THEN [free_undo_data(s, item) EXCEPT !.disable_next = FALSE]
  ELSE IF ~s.locked
       THEN LET s1 == LOCK(s)
                s2 == [s1 EXCEPT !.undo_list = g_list_prepend(@, item)]
                s3 == [g_list_free_full(s2, s2.redo_list) EXCEPT !.redo_list = <<>>]
            IN UNLOCK(s3)
       ELSE s

----------------------------------------------------------------------------
(* The group tracker: dt_undo_start_group and dt_undo_end_group.  id and ts *)
(* are the identity and the time stamp of the sentinel, should one be made. *)

dt_undo_start_group(s, type, id, ts) ==
  IF s.group = DT_UNDO_NONE
  THEN undo_record([s EXCEPT !.group = type, !.group_indent = 1],
                   NewItem(id, type, TRUE, FALSE, ts))
  ELSE [s EXCEPT !.group_indent = @ + 1]

(* dt_undo_end_group that returns at once when no group is open. *)
dt_undo_end_group_silent(s, id, ts) ==
  IF ~(s.group_indent > 0) THEN s
  ELSE LET s1 == [s EXCEPT !.group_indent = @ - 1]
       IN IF s1.group_indent = 0
          THEN [undo_record(s1, NewItem(id, s1.group, TRUE, FALSE, ts))
                  EXCEPT !.group = DT_UNDO_NONE]
          ELSE s1

(* The failed assert ends the program: nothing after it is executed. *)
dt_undo_end_group(s, id, ts) ==
  IF ~(s.group_indent > 0) THEN [s EXCEPT !.aborted = TRUE]
  ELSE LET s1 == [s EXCEPT !.group_indent = @ - 1]
       IN IF s1.group_indent = 0
          THEN [undo_record(s1, NewItem(id, s1.group, TRUE, FALSE, ts))
                  EXCEPT !.group = DT_UNDO_NONE]
          ELSE s1

----------------------------------------------------------------------------
(* Replay: _undo_do_undo_redo *)

GetFrom(s, action) == IF action = DT_ACTION_UNDO THEN s.undo_list ELSE s.redo_list

GetTo(s, action) == IF action = DT_ACTION_UNDO THEN s.redo_list ELSE s.undo_list

SetFrom(s, action, list) ==
  IF action = DT_ACTION_UNDO THEN [s EXCEPT !.undo_list = list]
  ELSE [s EXCEPT !.redo_list = list]

SetTo(s, action, list) ==
  IF action = DT_ACTION_UNDO THEN [s EXCEPT !.redo_list = list]
  ELSE [s EXCEPT !.undo_list = list]

(* Callback with DT_ACTION_UNDO passed in place of action. *)
Callback_undo_only(s, item, action, cb) ==
  LET s1 == [s EXCEPT !.log = Append(@, <<item.id, DT_ACTION_UNDO>>)]
  IN IF cb = <<>> THEN s1 ELSE undo_record(s1, cb[1])

(* item->undo(user_data, type, data, action).  cb is what the callback does: *)
(* <<>> when it returns at once, <<it>> when it asks dt_undo_record for it.   *)
Callback(s, item, action, cb) ==
  LET s1 == [s EXCEPT !.log = Append(@, <<item.id, action>>)]
  IN IF cb = <<>> THEN s1 ELSE undo_record(s1, cb[1])

(* MoveItem without the g_list_remove: the item stays in FROM as well. *)
MoveItem_keeps_in_from(s, item, action, cb) ==
  LET s2 == IF item.is_group THEN s ELSE Callback(s, item, action, cb)
  IN SetTo(s2, action, g_list_prepend(GetTo(s2, action), item))

(* One passage of either loop body: take the item out of FROM, call back  *)
(* unless it is a sentinel, put it in front of TO.                         *)
MoveItem(s, item, action, cb) ==
  LET s1 == SetFrom(s, action, g_list_remove(GetFrom(s, action), item))
      s2 == IF item.is_group THEN s1 ELSE Callback(s1, item, action, cb)
  IN SetTo(s2, action, g_list_prepend(GetTo(s2, action), item))

(* The sentinel that heads a group goes to TO without a callback. *)
MoveGroupHead(s, item, action) ==
  LET s1 == SetFrom(s, action, g_list_remove(GetFrom(s, action), item))
  IN SetTo(s1, action, g_list_prepend(GetTo(s1, action), item))

(* GroupLoop that stops in front of the closing sentinel and leaves it. *)
RECURSIVE GroupLoop_stops_early(_, _, _, _, _)
GroupLoop_stops_early(s, action, rest, is_group, cb) ==
  IF rest = <<>> \/ Head(rest).is_group THEN s
  ELSE GroupLoop_stops_early(MoveItem(s, Head(rest), action, cb), action, Tail(rest),
                             FALSE, cb)

(* while((l = next) && !is_group): rest are the nodes from next on. *)
RECURSIVE GroupLoop(_, _, _, _, _)
GroupLoop(s, action, rest, is_group, cb) ==
  IF rest = <<>> \/ is_group THEN s
  ELSE LET item == Head(rest)
       IN GroupLoop(MoveItem(s, item, action, cb), action, Tail(rest),
                    item.is_group, cb)

(* InPeriod with <= in place of <. *)
InPeriod_inclusive(item, first_item_ts) == fabs(item.ts - first_item_ts) <= MAX_TIME_PERIOD

InPeriod(item, first_item_ts) == fabs(item.ts - first_item_ts) < MAX_TIME_PERIOD

(* Continue without the test of the filter. *)
Continue_ignores_filter(rest, filter, in_group, first_item_ts) ==
  /\ rest # <<>>
  /\ (in_group \/ fabs(Head(rest).ts - first_item_ts) < MAX_TIME_PERIOD)

(* while (l && (item->type & filter) && (in_group || fabs(...) < MAX_TIME_PERIOD)) *)
Continue(rest, filter, in_group, first_item_ts) ==
  /\ rest # <<>>
  /\ Matches(Head(rest), filter)
  /\ (in_group \/ InPeriod(Head(rest), first_item_ts))

(* do { ... } while(...): one passage for item, rest are the nodes after it. *)
RECURSIVE PlainLoop(_, _, _, _, _, _, _, _)
PlainLoop(s, action, filter, item, rest, first_item_ts, in_group, cb) ==
  LET in2 == IF item.is_group THEN ~in_group ELSE in_group
      s1 == MoveItem(s, item, action, cb)
  IN IF Continue(rest, filter, in2, first_item_ts)
     THEN PlainLoop(s1, action, filter, Head(rest), Tail(rest), first_item_ts, in2, cb)
     ELSE s1

(* Scan without the test of line 170: the first item is taken as a match. *)
Scan_takes_any(s, filter, action, l, cb) ==
  IF l = <<>> THEN s
  ELSE LET item == Head(l)
       IN IF item.is_group
          THEN GroupLoop(MoveGroupHead(s, item, action), action, Tail(l), FALSE, cb)
          ELSE PlainLoop(s, action, filter, item, Tail(l), item.ts, FALSE, cb)

(* while(l): l are the nodes of FROM from the cursor on. *)
RECURSIVE Scan(_, _, _, _, _)
Scan(s, filter, action, l, cb) ==
  IF l = <<>> THEN s
  ELSE LET item == Head(l)
       IN IF Matches(item, filter)
          THEN IF item.is_group
               THEN GroupLoop(MoveGroupHead(s, item, action), action, Tail(l), FALSE, cb)
               ELSE PlainLoop(s, action, filter, item, Tail(l), item.ts, FALSE, cb)
          ELSE Scan(s, filter, action, Tail(l), cb)

undo_do_undo_redo(s, filter, action, cb) ==
  UNLOCK(Scan(LOCK(s), filter, action, GetFrom(s, action), cb))

----------------------------------------------------------------------------
(* Clear: _undo_clear_list and dt_undo_clear *)

RECURSIVE ClearMatching(_, _, _)
ClearMatching(s, l, filter) ==
  IF l = <<>> THEN s
  ELSE IF Matches(Head(l), filter)
       THEN ClearMatching(free_undo_data(s, Head(l)), Tail(l), filter)
       ELSE ClearMatching(s, Tail(l), filter)

RECURSIVE KeepOthers(_, _)
KeepOthers(l, filter) ==
  IF l = <<>> THEN <<>>
  ELSE IF Matches(Head(l), filter) THEN KeepOthers(Tail(l), filter)
  ELSE <<Head(l)>> \o KeepOthers(Tail(l), filter)

(* list names the field, "undo_list" or "redo_list", the GList ** points to. *)
undo_clear_list(s, list, filter) ==
  [ClearMatching(s, s[list], filter) EXCEPT ![list] = KeepOthers(@, filter)]

(* dt_undo_clear without lines 274-275: the items the filter spares stay. *)
dt_undo_clear_matching_only(s, filter) ==
  LET s1 == undo_clear_list(LOCK(s), "undo_list", filter)
      s2 == undo_clear_list(s1, "redo_list", filter)
  IN UNLOCK([s2 EXCEPT !.disable_next = FALSE])

dt_undo_clear(s, filter) ==
  LET s1 == undo_clear_list(LOCK(s), "undo_list", filter)
      s2 == undo_clear_list(s1, "redo_list", filter)
      s3 == [s2 EXCEPT !.undo_list = <<>>, !.redo_list = <<>>, !.disable_next = FALSE]
  IN UNLOCK(s3)

----------------------------------------------------------------------------
(* Iterate: _undo_iterate, dt_undo_iterate_internal and dt_undo_iterate *)

DT_ITERATE == "ITERATE"

(* apply(user_data, type, data): cb is what the visitor does, as for Callback. *)
Visit(s, item, cb) ==
  LET s1 == [s EXCEPT !.log = Append(@, <<item.id, DT_ITERATE>>)]
  IN IF cb = <<>> THEN s1 ELSE undo_record(s1, cb[1])

(* undo_iterate without the test of is_group: sentinels are visited too. *)
RECURSIVE undo_iterate_visits_sentinels(_, _, _, _)
undo_iterate_visits_sentinels(s, l, filter, cb) ==
  IF l = <<>> THEN s
  ELSE undo_iterate_visits_sentinels(
         IF Matches(Head(l), filter) THEN Visit(s, Head(l), cb) ELSE s,
         Tail(l), filter, cb)

(* while(l): l are the nodes of the list from the cursor on. *)
RECURSIVE undo_iterate(_, _, _, _)
undo_iterate(s, l, filter, cb) ==
  IF l = <<>> THEN s
  ELSE undo_iterate(
         IF ~Head(l).is_group /\ Matches(Head(l), filter) THEN Visit(s, Head(l), cb) ELSE s,
         Tail(l), filter, cb)

dt_undo_iterate_internal(s, filter, cb) ==
  LET s1 == undo_iterate(s, s.undo_list, filter, cb)
  IN undo_iterate(s1, s1.redo_list, filter, cb)

dt_undo_iterate(s, filter, cb) ==
  UNLOCK(dt_undo_iterate_internal(LOCK(s), filter, cb))

----------------------------------------------------------------------------
(* The state machine: one action per public function *)

Ids == 1..MaxItems

(* The time that may pass before dt_get_wtime() is read again: 0.1 s or    *)
(* 0.4 s.  Two reads are then 0.1, 0.2, 0.4, 0.5 s or more apart, so an    *)
(* item can be within the period of its neighbour and not of an older one. *)
Deltas == {1, MAX_TIME_PERIOD - 1}

Call(op, asked) == [op |-> op, asked |-> asked]

RECURSIVE CountReleases(_, _)
CountReleases(count, ids) ==
  IF ids = <<>> THEN count
  ELSE CountReleases(IF Head(ids) \in DOMAIN count
                     THEN [count EXCEPT ![Head(ids)] = @ + 1] ELSE count,
                     Tail(ids))

(* The two threads that may call the engine. *)
Threads == {"a", "b"}

(* A thread that is in no call.  lost names the call that held the mutex   *)
(* when the last record of this thread was dropped, "none" otherwise.      *)
Idle ==
  [pc |-> "idle", op |-> "none", type |-> DT_UNDO_NONE, is_group |-> FALSE,
   id |-> 0, filter |-> DT_UNDO_NONE, l |-> <<>>, flag |-> FALSE, first_item_ts |-> 0,
   steps |-> 0, len |-> 0, tmp |-> 0, cont |-> "idle", lost |-> "none"]

(* What a call leaves behind, and what it was seen to invoke. *)
Commit(s) ==
  /\ UNCHANGED <<mutex, thread>>
  /\ undo_list' = s.undo_list
  /\ redo_list' = s.redo_list
  /\ disable_next' = s.disable_next
  /\ locked' = s.locked
  /\ log' = s.log
  /\ rel' = s.rel
  /\ released' = CountReleases(released, s.rel)

(* A call starts when the engine is in use and the observers of the call   *)
(* before it have been read and cleared.                                   *)
Ready == status = "live" /\ last.op = "idle"

Init ==
  /\ undo_list = <<>>
  /\ redo_list = <<>>
  /\ disable_next = FALSE
  /\ locked = FALSE
  /\ group = DT_UNDO_NONE
  /\ group_indent = 0
  /\ now = 0
  /\ nextId = 1
  /\ status = "live"
  /\ last = Call("idle", 0)
  /\ log = <<>>
  /\ rel = <<>>
  /\ released = [i \in Ids |-> 0]
  /\ mutex = {}
  /\ thread = [t \in Threads |-> Idle]

DisableNext ==
  /\ Ready
  /\ disable_next' = TRUE
  /\ last' = Call("disable_next", 0)
  /\ log' = <<>>
  /\ rel' = <<>>
  /\ UNCHANGED <<undo_list, redo_list, locked, group, group_indent, now, nextId,
                 status, released, mutex, thread>>

(* _undo_record for a new item, stamped with the time t the clock shows. *)
RecordItem(type, is_group, free_data, t) ==
  /\ nextId <= MaxItems
  /\ t <= MaxTime
  /\ Commit(undo_record(Self, NewItem(nextId, type, is_group, free_data, t)))
  /\ nextId' = nextId + 1
  /\ now' = t

Record(type, free_data, dt) ==
  /\ Ready
  /\ RecordItem(type, FALSE, free_data, now + dt)
  /\ last' = Call("record", 0)
  /\ UNCHANGED <<group, group_indent, status>>

(* What a call of the group tracker leaves behind.  sentinel says whether  *)
(* the call made a sentinel, stamped with the time t the clock shows.       *)
CommitGroup(s, sentinel, t) ==
  /\ sentinel => (nextId <= MaxItems /\ t <= MaxTime)
  /\ Commit(s)
  /\ group' = s.group
  /\ group_indent' = s.group_indent
  /\ status' = IF s.aborted THEN "aborted" ELSE status
  /\ nextId' = IF sentinel THEN nextId + 1 ELSE nextId
  /\ now' = IF sentinel THEN t ELSE now

StartGroup(type, dt) ==
  /\ Ready
  /\ group # DT_UNDO_NONE => group_indent < MaxDepth
  /\ CommitGroup(dt_undo_start_group(Self, type, nextId, now + dt),
                 group = DT_UNDO_NONE, now + dt)
  /\ last' = Call("start_group", 0)

EndGroup(dt) ==
  /\ Ready
  /\ CommitGroup(dt_undo_end_group(Self, nextId, now + dt), group_indent = 1, now + dt)
  /\ last' = Call("end_group", 0)

(* What an undo callback may do: return, or ask for a record of its own. *)
CallbackChoices == {<<>>, <<NewItem(0, 1, FALSE, TRUE, now)>>}

Perform(filter, action, cb) ==
  /\ Ready
  /\ LET s == undo_do_undo_redo(Self, filter, action, cb)
     IN /\ Commit(s)
        /\ last' = Call(action, IF cb = <<>> THEN 0 ELSE Len(s.log))
  /\ UNCHANGED <<group, group_indent, now, nextId, status>>

DoUndo(filter, cb) == Perform(filter, DT_ACTION_UNDO, cb)

DoRedo(filter, cb) == Perform(filter, DT_ACTION_REDO, cb)

Iterate(filter, cb) ==
  /\ Ready
  /\ LET s == dt_undo_iterate(Self, filter, cb)
     IN /\ Commit(s)
        /\ last' = Call("iterate", IF cb = <<>> THEN 0 ELSE Len(s.log))
  /\ UNCHANGED <<group, group_indent, now, nextId, status>>

Clear(filter) ==
  /\ Ready
  /\ Commit(dt_undo_clear(Self, filter))
  /\ last' = Call("clear", 0)
  /\ UNCHANGED <<group, group_indent, now, nextId, status>>

Cleanup ==
  /\ Ready
  /\ Commit(dt_undo_clear(Self, DT_UNDO_ALL))
  /\ status' = "destroyed"
  /\ last' = Call("cleanup", 0)
  /\ UNCHANGED <<group, group_indent, now, nextId>>

(* The call has returned: its observers are cleared for the next call. *)
Return ==
  /\ status = "live"
  /\ last.op # "idle"
  /\ last' = Call("idle", 0)
  /\ log' = <<>>
  /\ rel' = <<>>
  /\ UNCHANGED <<undo_list, redo_list, disable_next, locked, group, group_indent,
                 now, nextId, status, released, mutex, thread>>

(* Every call, with all records stamped at the same reading of the clock. *)
Next ==
  \/ Return
  \/ DisableNext
  \/ \E type \in Kinds, free_data \in BOOLEAN : Record(type, free_data, 0)
  \/ \E type \in Kinds : StartGroup(type, 0)
  \/ EndGroup(0)
  \/ \E filter \in Masks, cb \in CallbackChoices : DoUndo(filter, cb)
  \/ \E filter \in Masks, cb \in CallbackChoices : DoRedo(filter, cb)
  \/ \E filter \in Masks : Clear(filter)
  \/ Cleanup

Spec == Init /\ [][Next]_vars

(* Traversal: dt_undo_iterate reads the lists the other calls have made,   *)
(* with a visitor that returns or asks for a record.                       *)
NextIterate ==
  \/ Return
  \/ DisableNext
  \/ \E type \in Kinds : Record(type, TRUE, 0)
  \/ \E type \in Kinds : StartGroup(type, 0)
  \/ EndGroup(0)
  \/ \E filter \in Masks : DoUndo(filter, <<>>)
  \/ \E filter \in Masks, cb \in CallbackChoices : Iterate(filter, cb)

SpecIterate == Init /\ [][NextIterate]_vars

(* Recording and replay with the clock moving between records. *)
NextReplay ==
  \/ Return
  \/ DisableNext
  \/ \E type \in Kinds, dt \in Deltas : Record(type, TRUE, dt)
  \/ \E type \in Kinds, dt \in Deltas : StartGroup(type, dt)
  \/ \E dt \in Deltas : EndGroup(dt)
  \/ \E filter \in Masks, cb \in CallbackChoices : DoUndo(filter, cb)
  \/ \E filter \in Masks, cb \in CallbackChoices : DoRedo(filter, cb)

SpecReplay == Init /\ [][NextReplay]_vars

(* Recording and replay alone, with the clock moving between records. *)
NextPerform ==
  \/ Return
  \/ \E type \in Kinds, dt \in Deltas : Record(type, TRUE, dt)
  \/ \E type \in Kinds, dt \in Deltas : StartGroup(type, dt)
  \/ \E dt \in Deltas : EndGroup(dt)
  \/ \E filter \in Masks, cb \in CallbackChoices : DoUndo(filter, cb)
  \/ \E filter \in Masks, cb \in CallbackChoices : DoRedo(filter, cb)

SpecPerform == Init /\ [][NextPerform]_vars

----------------------------------------------------------------------------
(* Two threads calling the engine.  A step is what a thread does between   *)
(* two points where the other thread can see or change the engine: a read  *)
(* or a write of a field made without the mutex, the wait for the mutex,   *)
(* one passage of a replay loop.  LOCK is taken as one step (the flag is   *)
(* written inside the mutex), and so is UNLOCK.  The observers of the      *)
(* single-threaded specifications are not kept here.                       *)

(* The call of thread t is over: it is in no call any more. *)
Returned(r) == [Idle EXCEPT !.lost = r.lost]

(* _undo_record returns to the function that called it. *)
After(r) == IF r.cont = "idle" THEN Returned(r) ELSE [r EXCEPT !.pc = r.cont]

(* The call whose thread holds the mutex. *)
Holder == IF mutex = {} THEN "none" ELSE thread[CHOOSE h \in mutex : TRUE].op

(* A call starts: the thread is in no call and the program runs. *)
CanCall(t) == status = "live" /\ thread[t].pc = "idle"

(* A call that may make an item is given the identity of that item. *)
WithItem(op, type, is_group) ==
  [Idle EXCEPT !.op = op, !.type = type, !.is_group = is_group, !.id = nextId]

At(t, pc) == status = "live" /\ thread[t].pc = pc

Goto(t, r) == thread' = [thread EXCEPT ![t] = r]

(* if(self->disable_next) of _undo_record, read and reset without the mutex. *)
TestFlag(t, r) ==
  IF disable_next
  THEN /\ disable_next' = FALSE
       /\ Goto(t, After(r))
  ELSE /\ Goto(t, [r EXCEPT !.pc = "rec_locked"])
       /\ UNCHANGED disable_next

T_DisableNext(t) ==
  /\ CanCall(t)
  /\ disable_next' = TRUE
  /\ UNCHANGED <<undo_list, redo_list, locked, group, group_indent, now, nextId,
                 status, last, log, rel, released, mutex, thread>>

(* dt_undo_record up to the test of disable_next. *)
T_Record(t, type) ==
  /\ CanCall(t)
  /\ nextId <= MaxItems
  /\ nextId' = nextId + 1
  /\ TestFlag(t, WithItem("record", type, FALSE))
  /\ UNCHANGED <<undo_list, redo_list, locked, group, group_indent, now,
                 status, last, log, rel, released, mutex>>

(* _undo_record called for a sentinel: the test of disable_next. *)
T_RecFlag(t) ==
  /\ At(t, "rec_flag")
  /\ TestFlag(t, thread[t])
  /\ UNCHANGED <<undo_list, redo_list, locked, group, group_indent, now, nextId,
                 status, last, log, rel, released, mutex>>

(* if(!self->locked), read without the mutex: the record is dropped when   *)
(* the flag is set.                                                        *)
T_RecLocked(t) ==
  /\ At(t, "rec_locked")
  /\ IF locked
     THEN Goto(t, After([thread[t] EXCEPT !.lost = Holder]))
     ELSE Goto(t, [thread[t] EXCEPT !.pc = "rec_lock"])
  /\ UNCHANGED <<undo_list, redo_list, disable_next, locked, group, group_indent, now,
                 nextId, status, last, log, rel, released, mutex>>

(* LOCK: the thread waits until the mutex is free. *)
Acquire(t, pc, r) ==
  /\ At(t, pc)
  /\ mutex = {}
  /\ mutex' = {t}
  /\ locked' = TRUE
  /\ Goto(t, r)
  /\ UNCHANGED <<undo_list, redo_list, disable_next, group, group_indent, now, nextId,
                 status, last, log, rel, released>>

T_RecLock(t) == Acquire(t, "rec_lock", [thread[t] EXCEPT !.pc = "rec_body"])

(* The new item goes in front of the undo list, the redo list is freed;    *)
(* UNLOCK.                                                                 *)
T_RecBody(t) ==
  /\ At(t, "rec_body")
  /\ LET r == thread[t]
     IN undo_list' = g_list_prepend(undo_list, NewItem(r.id, r.type, r.is_group,
                                                       ~r.is_group, now))
  /\ redo_list' = <<>>
  /\ locked' = FALSE
  /\ mutex' = {}
  /\ Goto(t, After(thread[t]))
  /\ UNCHANGED <<disable_next, group, group_indent, now, nextId,
                 status, last, log, rel, released>>

(* dt_undo_start_group: if(self->group == DT_UNDO_NONE), and the read of   *)
(* group_indent for the ++ of the other branch.                            *)
T_StartGroup(t, type) ==
  /\ CanCall(t)
  /\ nextId <= MaxItems
  /\ group_indent < MaxDepth
  /\ nextId' = nextId + 1
  /\ IF group = DT_UNDO_NONE
     THEN Goto(t, [WithItem("start_group", type, TRUE) EXCEPT !.pc = "sg_open"])
     ELSE Goto(t, [WithItem("start_group", type, TRUE) EXCEPT
                     !.pc = "sg_inc", !.tmp = group_indent])
  /\ UNCHANGED <<undo_list, redo_list, disable_next, locked, group, group_indent, now,
                 status, last, log, rel, released, mutex>>

(* self->group = type; self->group_indent = 1; then _undo_record. *)
T_SgOpen(t) ==
  /\ At(t, "sg_open")
  /\ group' = thread[t].type
  /\ group_indent' = 1
  /\ Goto(t, [thread[t] EXCEPT !.pc = "rec_flag"])
  /\ UNCHANGED <<undo_list, redo_list, disable_next, locked, now, nextId,
                 status, last, log, rel, released, mutex>>

(* The write of self->group_indent++. *)
T_SgInc(t) ==
  /\ At(t, "sg_inc")
  /\ group_indent' = thread[t].tmp + 1
  /\ Goto(t, Returned(thread[t]))
  /\ UNCHANGED <<undo_list, redo_list, disable_next, locked, group, now, nextId,
                 status, last, log, rel, released, mutex>>

(* dt_undo_end_group: the assert, and the read of self->group_indent--. *)
T_EndGroup(t) ==
  /\ CanCall(t)
  /\ nextId <= MaxItems
  /\ nextId' = nextId + 1
  /\ IF group_indent > 0
     THEN /\ Goto(t, [WithItem("end_group", DT_UNDO_NONE, TRUE) EXCEPT
                        !.pc = "eg_dec", !.tmp = group_indent])
          /\ UNCHANGED status
     ELSE /\ status' = "aborted"
          /\ UNCHANGED thread
  /\ UNCHANGED <<undo_list, redo_list, disable_next, locked, group, group_indent, now,
                 last, log, rel, released, mutex>>

(* The write of self->group_indent--. *)
T_EgDec(t) ==
  /\ At(t, "eg_dec")
  /\ group_indent' = thread[t].tmp - 1
  /\ Goto(t, [thread[t] EXCEPT !.pc = "eg_test"])
  /\ UNCHANGED <<undo_list, redo_list, disable_next, locked, group, now, nextId,
                 status, last, log, rel, released, mutex>>

(* if(self->group_indent == 0): _undo_record for a sentinel of self->group. *)
T_EgTest(t) ==
  /\ At(t, "eg_test")
  /\ IF group_indent = 0
     THEN Goto(t, [thread[t] EXCEPT !.pc = "rec_flag", !.type = group,
                                    !.cont = "eg_reset"])
     ELSE Goto(t, Returned(thread[t]))
  /\ UNCHANGED <<undo_list, redo_list, disable_next, locked, group, group_indent, now,
                 nextId, status, last, log, rel, released, mutex>>

(* self->group = DT_UNDO_NONE, after _undo_record has returned. *)
T_EgReset(t) ==
  /\ At(t, "eg_reset")
  /\ group' = DT_UNDO_NONE
  /\ Goto(t, Returned(thread[t]))
  /\ UNCHANGED <<undo_list, redo_list, disable_next, locked, group_indent, now, nextId,
                 status, last, log, rel, released, mutex>>

(* A call that starts with LOCK: the thread is now waiting for the mutex. *)
Enter(t, op, filter, pc) ==
  /\ CanCall(t)
  /\ Goto(t, [Idle EXCEPT !.op = op, !.filter = filter, !.pc = pc])
  /\ UNCHANGED <<undo_list, redo_list, disable_next, locked, group, group_indent, now,
                 nextId, status, last, log, rel, released, mutex>>

(* UNLOCK at the end of a call, with the lists and the flag it leaves. *)
Leave(t, s) ==
  /\ undo_list' = s.undo_list
  /\ redo_list' = s.redo_list
  /\ disable_next' = s.disable_next
  /\ locked' = FALSE
  /\ mutex' = {}
  /\ Goto(t, Returned(thread[t]))
  /\ UNCHANGED <<group, group_indent, now, nextId, status, last, log, rel, released>>

(* The engine as the holder of the mutex sees it when it has just taken it. *)
Unlocked == [Self EXCEPT !.locked = FALSE]

T_Perform(t, filter, action) == Enter(t, action, filter, "pf_lock")

(* LOCK, and l is set to the first node of FROM. *)
T_PfLock(t) ==
  Acquire(t, "pf_lock",
          [thread[t] EXCEPT !.pc = "pf_scan", !.l = GetFrom(Self, thread[t].op),
                            !.len = Len(GetFrom(Self, thread[t].op))])

(* One passage of a replay loop changes the lists and the flag of           *)
(* disable_next (a callback may ask for a record) and moves the cursor.     *)
Passage(t, s, r) ==
  /\ undo_list' = s.undo_list
  /\ redo_list' = s.redo_list
  /\ disable_next' = s.disable_next
  /\ Goto(t, r)
  /\ UNCHANGED <<locked, group, group_indent, now, nextId, status, last, log, rel,
                 released, mutex>>

(* One passage of while(l): the item is passed over, or it is the first    *)
(* match and one of the two inner loops is entered.                        *)
T_PfScan(t) ==
  /\ At(t, "pf_scan")
  /\ LET r == thread[t]
         item == Head(r.l)
         counted == [r EXCEPT !.steps = @ + 1]
     IN IF r.l = <<>>
        THEN Passage(t, Self, [r EXCEPT !.pc = "pf_unlock"])
        ELSE IF ~Matches(item, r.filter)
        THEN Passage(t, Self, [counted EXCEPT !.l = Tail(r.l)])
        ELSE IF item.is_group
        THEN Passage(t, MoveGroupHead(Self, item, r.op),
                     [counted EXCEPT !.pc = "pf_group", !.l = Tail(r.l), !.flag = FALSE])
        ELSE Passage(t, Self,
                     [counted EXCEPT !.pc = "pf_plain", !.first_item_ts = item.ts,
                                     !.flag = FALSE, !.steps = 0])

(* One passage of while((l = next) && !is_group). *)
T_PfGroup(t, cb) ==
  /\ At(t, "pf_group")
  /\ LET r == thread[t]
         item == Head(r.l)
     IN IF r.l = <<>> \/ r.flag
        THEN /\ cb = <<>>
             /\ Passage(t, Self, [r EXCEPT !.pc = "pf_unlock"])
        ELSE Passage(t, MoveItem(Self, item, r.op, cb),
                     [r EXCEPT !.l = Tail(r.l), !.flag = item.is_group,
                               !.steps = @ + 1])

(* One passage of do { ... } while(...). *)
T_PfPlain(t, cb) ==
  /\ At(t, "pf_plain")
  /\ LET r == thread[t]
         item == Head(r.l)
         in_group == IF item.is_group THEN ~r.flag ELSE r.flag
     IN Passage(t, MoveItem(Self, item, r.op, cb),
                [r EXCEPT !.l = Tail(r.l), !.flag = in_group, !.steps = @ + 1,
                          !.pc = IF Continue(Tail(r.l), r.filter, in_group,
                                             r.first_item_ts)
                                 THEN "pf_plain" ELSE "pf_unlock"])

(* T_PfUnlock that leaves the mutex held. *)
T_PfUnlock_keeps_mutex(t) ==
  /\ At(t, "pf_unlock")
  /\ locked' = FALSE
  /\ Goto(t, Returned(thread[t]))
  /\ UNCHANGED <<undo_list, redo_list, disable_next, group, group_indent, now, nextId,
                 status, last, log, rel, released, mutex>>

T_PfUnlock(t) ==
  /\ At(t, "pf_unlock")
  /\ Leave(t, Self)

T_Clear(t, filter) == Enter(t, "clear", filter, "cl_lock")

T_ClLock(t) == Acquire(t, "cl_lock", [thread[t] EXCEPT !.pc = "cl_body"])

(* dt_undo_clear from its LOCK on. *)
T_ClBody(t) ==
  /\ At(t, "cl_body")
  /\ Leave(t, dt_undo_clear(Unlocked, thread[t].filter))

T_Iterate(t, filter) == Enter(t, "iterate", filter, "it_lock")

T_ItLock(t) == Acquire(t, "it_lock", [thread[t] EXCEPT !.pc = "it_body"])

(* dt_undo_iterate from its LOCK on. *)
T_ItBody(t, cb) ==
  /\ At(t, "it_body")
  /\ Leave(t, dt_undo_iterate(Unlocked, thread[t].filter, cb))

(* The items of the threads are all of one type, and their calls take      *)
(* every type.                                                             *)
ThreadKind == CHOOSE type \in Kinds : TRUE

(* A thread starts one of the calls that begin with LOCK, or a record. *)
T_Call(t) ==
  \/ T_Record(t, ThreadKind)
  \/ \E action \in {DT_ACTION_UNDO, DT_ACTION_REDO} : T_Perform(t, DT_UNDO_ALL, action)
  \/ T_Clear(t, DT_UNDO_ALL)
  \/ T_Iterate(t, DT_UNDO_ALL)

(* A thread starts one of the calls that never take the mutex themselves. *)
T_CallGroup(t) ==
  \/ T_DisableNext(t)
  \/ T_StartGroup(t, ThreadKind)
  \/ T_EndGroup(t)

(* A thread takes the mutex it is waiting for. *)
T_Lock(t) == T_RecLock(t) \/ T_PfLock(t) \/ T_ClLock(t) \/ T_ItLock(t)

(* A thread goes on with a record, a perform, a clear or an iterate. *)
T_Run(t) ==
  \/ T_RecLocked(t)
  \/ T_RecBody(t)
  \/ T_PfScan(t)
  \/ \E cb \in CallbackChoices : T_PfGroup(t, cb)
  \/ \E cb \in CallbackChoices : T_PfPlain(t, cb)
  \/ T_PfUnlock(t)
  \/ T_ClBody(t)
  \/ \E cb \in CallbackChoices : T_ItBody(t, cb)

(* A thread goes on with a begin_group or an end_group. *)
T_RunGroup(t) ==
  \/ T_RecFlag(t)
  \/ T_SgOpen(t)
  \/ T_SgInc(t)
  \/ T_EgDec(t)
  \/ T_EgTest(t)
  \/ T_EgReset(t)

(* Every call, by either thread. *)
NextThreads ==
  \E t \in Threads : T_Call(t) \/ T_CallGroup(t) \/ T_Lock(t) \/ T_Run(t) \/ T_RunGroup(t)

SpecThreads == Init /\ [][NextThreads]_vars

(* The engine as dt_undo_init makes it. *)
dt_undo_init ==
  [undo_list |-> <<>>, redo_list |-> <<>>, disable_next |-> FALSE, locked |-> FALSE,
   group |-> DT_UNDO_NONE, group_indent |-> 0,
   log |-> <<>>, rel |-> <<>>, blocked |-> FALSE, aborted |-> FALSE]

(* The engine after begin_group, record and end_group, called one after    *)
(* the other on a new engine: one complete group in the undo list.         *)
OneGroup ==
  LET s1 == dt_undo_start_group(dt_undo_init, ThreadKind, 1, 0)
      s2 == undo_record(s1, NewItem(Len(s1.undo_list) + 1, ThreadKind, FALSE, TRUE, 0))
  IN dt_undo_end_group(s2, Len(s2.undo_list) + 1, 0)

(* The threads start on a new engine, or on one that holds one group. *)
InitGuard ==
  \E s \in {dt_undo_init, OneGroup} :
    /\ undo_list = s.undo_list
    /\ redo_list = s.redo_list
    /\ disable_next = s.disable_next
    /\ locked = s.locked
    /\ group = s.group
    /\ group_indent = s.group_indent
    /\ now = 0
    /\ nextId = Len(s.undo_list) + 1
    /\ status = "live"
    /\ last = Call("idle", 0)
    /\ log = <<>>
    /\ rel = <<>>
    /\ released = [i \in Ids |-> 0]
    /\ mutex = {}
    /\ thread = [t \in Threads |-> Idle]

(* The calls that take the mutex themselves, by either thread. *)
NextGuard == \E t \in Threads : T_Call(t) \/ T_Lock(t) \/ T_Run(t)

(* Fair scheduling: a thread that can go on with its call does so, and a    *)
(* thread that waits for the mutex gets it if the mutex is free again and   *)
(* again.                                                                   *)
SpecGuard ==
  /\ InitGuard
  /\ [][NextGuard]_vars
  /\ \A t \in Threads : WF_vars(T_Run(t)) /\ SF_vars(T_Lock(t))

----------------------------------------------------------------------------
(* Vocabulary of the properties *)

RECURSIVE IdsOf(_)
IdsOf(list) == IF list = <<>> THEN <<>> ELSE <<Head(list).id>> \o IdsOf(Tail(list))

RECURSIVE Reverse(_)
Reverse(list) == IF list = <<>> THEN <<>> ELSE Append(Reverse(Tail(list)), Head(list))

HasRelease(item) == item.free_data

IsPlain(item) == ~item.is_group

Range(list) == {list[i] : i \in 1..Len(list)}

(* The undo callbacks invoked, with the action each was given. *)
Applied(list, action) == [i \in 1..Len(list) |-> <<list[i].id, action>>]

(* The items a record call may be asked to push in this state: a plain one  *)
(* (dt_undo_record) or a sentinel (dt_undo_start_group, dt_undo_end_group). *)
Recordable ==
  {NewItem(nextId, type, FALSE, fd, now) : type \in Kinds, fd \in BOOLEAN}
    \cup {NewItem(nextId, type, TRUE, FALSE, now) : type \in Kinds}

(* A perform call leaves the lists as they are and calls nothing back. *)
NoOp(s, r) == r.log = s.log /\ r.undo_list = s.undo_list /\ r.redo_list = s.redo_list

----------------------------------------------------------------------------
(* C1. Redo invalidation: a record call that pushes a new item (a plain    *)
(* record or the sentinel of a group) leaves the redo list empty and has   *)
(* released, once each and in list order, the data of every discarded item *)
(* that has a free_data callback; a redo asked right after, with any       *)
(* filter, moves nothing and calls nothing back.                           *)
C1_RedoInvalidation ==
  Ready =>
  \A item \in Recordable :
    LET s == undo_record(Self, item)
    IN s.undo_list # undo_list =>
         /\ s.undo_list = <<item>> \o undo_list
         /\ s.redo_list = <<>>
         /\ s.rel = IdsOf(SelectSeq(redo_list, HasRelease))
         /\ \A filter \in Masks, cb \in CallbackChoices :
              NoOp(s, undo_do_undo_redo(s, filter, DT_ACTION_REDO, cb))

(* A record has just pushed an item and released what the redo list held. *)
C1_Witness ==
  /\ last.op = "record"
  /\ undo_list # <<>>
  /\ Head(undo_list).id = nextId - 1
  /\ redo_list = <<>>
  /\ rel # <<>>
  /\ \A i \in 1..Len(rel) : rel[i] < nextId - 1

(* C2. Round trip of one item: with one plain item e recorded and nothing  *)
(* else, an undo with a filter matching its type followed by a redo with   *)
(* the same filter calls e's callback exactly twice, with UNDO and then    *)
(* with REDO; after the undo e is alone in the redo list and the undo list *)
(* is empty, after the redo e is alone in the undo list again.             *)
C2_RoundTrip ==
  (Ready /\ Len(undo_list) = 1 /\ redo_list = <<>> /\ IsPlain(Head(undo_list))) =>
    LET e == Head(undo_list)
    IN \A filter \in Masks, cb \in CallbackChoices :
         Matches(e, filter) =>
           LET u == undo_do_undo_redo(Self, filter, DT_ACTION_UNDO, cb)
               r == undo_do_undo_redo(u, filter, DT_ACTION_REDO, cb)
           IN /\ u.log = <<<<e.id, DT_ACTION_UNDO>>>>
              /\ u.undo_list = <<>>
              /\ u.redo_list = <<e>>
              /\ r.log = <<<<e.id, DT_ACTION_UNDO>>, <<e.id, DT_ACTION_REDO>>>>
              /\ r.undo_list = <<e>>
              /\ r.redo_list = <<>>

(* The one item there is has been undone and has just been redone. *)
C2_Witness ==
  /\ last.op = DT_ACTION_REDO
  /\ Len(undo_list) = 1
  /\ redo_list = <<>>
  /\ IsPlain(Head(undo_list))
  /\ log = <<<<Head(undo_list).id, DT_ACTION_REDO>>>>

(* The first place of list whose item has a bit of filter, 0 when none has. *)
FirstMatch(list, filter) ==
  IF \E i \in 1..Len(list) : Matches(list[i], filter)
  THEN CHOOSE i \in 1..Len(list) :
         Matches(list[i], filter) /\ \A j \in 1..(i - 1) : ~Matches(list[j], filter)
  ELSE 0

(* list without its places lo..hi. *)
Without(list, lo, hi) == SubSeq(list, 1, lo - 1) \o SubSeq(list, hi + 1, Len(list))

(* The front of the undo list is a group of type K as begin_group(K), n     *)
(* records of type K and end_group() leave it: pushed one after the other.  *)
FreshGroup(K, n) ==
  /\ Len(undo_list) >= n + 2
  /\ undo_list[1].is_group /\ undo_list[n + 2].is_group
  /\ \A i \in 2..(n + 1) : IsPlain(undo_list[i])
  /\ \A i \in 1..(n + 2) : undo_list[i].type = K
  /\ \A i \in 1..(n + 1) : undo_list[i].id = undo_list[i + 1].id + 1

Called(s) == {s.log[i][1] : i \in 1..Len(s.log)}

(* The items of list that have no bit of filter, in list order. *)
Others(list, filter) == SelectSeq(list, LAMBDA item : ~Matches(item, filter))

(* C4 as it is claimed. Filter selectivity: a perform never calls back nor *)
(* moves an item whose type has no bit of the filter; these items stay in  *)
(* their list, in the same order.                                          *)
C4_AsClaimed ==
  Ready =>
  \A filter \in Masks, action \in {DT_ACTION_UNDO, DT_ACTION_REDO}, cb \in CallbackChoices :
    LET r == undo_do_undo_redo(Self, filter, action, cb)
    IN /\ \A item \in Range(undo_list) \cup Range(redo_list) :
            ~Matches(item, filter) => item.id \notin Called(r)
       /\ Others(r.undo_list, filter) = Others(undo_list, filter)
       /\ Others(r.redo_list, filter) = Others(redo_list, filter)

(* The place where a group headed at place i of list ends: the next        *)
(* sentinel, or the end of the list when there is none.                    *)
GroupEnd(list, i) ==
  IF \E j \in (i + 1)..Len(list) : list[j].is_group
  THEN CHOOSE j \in (i + 1)..Len(list) :
         list[j].is_group /\ \A k \in (i + 1)..(j - 1) : ~list[k].is_group
  ELSE Len(list)

(* C4, amended. A perform calls back or moves an item whose type has no    *)
(* bit of the filter only when the first source item that matches is a     *)
(* sentinel, and then only the items after it up to and including the next *)
(* sentinel (or the end of the source list).  Every item it does not move  *)
(* stays in its list, in the same order.                                   *)
C4_FilterSelectivity ==
  Ready =>
  \A filter \in Masks, action \in {DT_ACTION_UNDO, DT_ACTION_REDO}, cb \in CallbackChoices :
    LET r == undo_do_undo_redo(Self, filter, action, cb)
        from == GetFrom(Self, action)
        to == GetTo(Self, action)
        rfrom == GetFrom(r, action)
        rto == GetTo(r, action)
        i == FirstMatch(from, filter)
        stays(item) == item \in Range(rfrom)
    IN /\ \A k \in 1..Len(from) :
            (~Matches(from[k], filter) /\ (from[k].id \in Called(r) \/ ~stays(from[k])))
              => (i > 0 /\ from[i].is_group /\ i < k /\ k <= GroupEnd(from, i))
       /\ rfrom = SelectSeq(from, stays)
       /\ Len(rto) >= Len(to)
       /\ SubSeq(rto, Len(rto) - Len(to) + 1, Len(rto)) = to
       /\ Called(r) \subseteq {from[k].id : k \in 1..Len(from)}
       /\ Len(rfrom) + Len(rto) = Len(from) + Len(to)

(* An undo has called back an item while an item of another type, which    *)
(* its filter cannot have matched, stays in front of the undo list.        *)
C4_Witness ==
  /\ last.op = DT_ACTION_UNDO
  /\ Len(log) = 1
  /\ undo_list # <<>> /\ redo_list # <<>>
  /\ IsPlain(Head(undo_list)) /\ IsPlain(Head(redo_list))
  /\ log[1][1] = Head(redo_list).id
  /\ BitAnd(Head(undo_list).type, Head(redo_list).type) = 0
  /\ Head(undo_list).id > Head(redo_list).id

(* The sentinels among the places lo..hi of list. *)
Sentinels(list, lo, hi) == {k \in lo..hi : list[k].is_group}

(* Place k of list may join the run that starts at the plain item of place *)
(* i: it matches the filter and is inside a group nested in the run (an    *)
(* odd number of sentinels lies between) or less than MAX_TIME_PERIOD from *)
(* the timestamp of place i.                                               *)
Joins(list, filter, i, k) ==
  /\ Matches(list[k], filter)
  /\ \/ Cardinality(Sentinels(list, i, k - 1)) % 2 = 1
     \/ list[k].ts - list[i].ts \in (1 - MAX_TIME_PERIOD)..(MAX_TIME_PERIOD - 1)

(* The last place of the longest run from place i all of whose later       *)
(* places join.                                                            *)
RunEnd(list, filter, i) ==
  CHOOSE j \in i..Len(list) :
    /\ \A k \in (i + 1)..j : Joins(list, filter, i, k)
    /\ j < Len(list) => ~Joins(list, filter, i, j + 1)

(* C5. Time-window coalescing: when the first source item that matches the *)
(* filter is a plain item, perform calls back and moves exactly the        *)
(* longest contiguous run starting there in which every later item matches *)
(* the filter and is inside a nested group or less than 0.5 s from the     *)
(* first item's timestamp (not from its neighbour's).  So two plain items  *)
(* of one type 0.1 s apart go in one call, and two that are 0.5 s or more  *)
(* apart need two calls.                                                   *)
C5_Coalescing ==
  Ready =>
  \A filter \in Masks, action \in {DT_ACTION_UNDO, DT_ACTION_REDO}, cb \in CallbackChoices :
    LET from == GetFrom(Self, action)
        to == GetTo(Self, action)
        i == FirstMatch(from, filter)
    IN (i > 0 /\ IsPlain(from[i])) =>
         LET j == RunEnd(from, filter, i)
             run == SubSeq(from, i, j)
             r == undo_do_undo_redo(Self, filter, action, cb)
             r2 == undo_do_undo_redo(r, filter, action, cb)
         IN /\ r.log = Applied(SelectSeq(run, IsPlain), action)
            /\ GetFrom(r, action) = Without(from, i, j)
            /\ GetTo(r, action) = Reverse(run) \o to
            /\ (i < Len(from) /\ IsPlain(from[i + 1]) /\ from[i + 1].type = from[i].type) =>
                 IF fabs(from[i + 1].ts - from[i].ts) < MAX_TIME_PERIOD
                 THEN {from[i].id, from[i + 1].id} \subseteq Called(r)
                 ELSE /\ r.log = <<<<from[i].id, action>>>>
                      /\ r2.log[2] = <<from[i + 1].id, action>>

(* An undo has replayed two items in one call.  The next item, a plain one *)
(* of the same type, is less than MAX_TIME_PERIOD older than the item      *)
(* replayed last but exactly MAX_TIME_PERIOD older than the one replayed   *)
(* first, and stays at the front of the undo list.                         *)
C5_Witness ==
  /\ last.op = DT_ACTION_UNDO
  /\ Len(log) = 2
  /\ undo_list # <<>> /\ Len(redo_list) >= 2
  /\ log[1][1] = redo_list[2].id /\ log[2][1] = redo_list[1].id
  /\ IsPlain(Head(undo_list)) /\ IsPlain(redo_list[1]) /\ IsPlain(redo_list[2])
  /\ Head(undo_list).type = redo_list[1].type
  /\ Head(undo_list).type = redo_list[2].type
  /\ redo_list[1].ts - Head(undo_list).ts < MAX_TIME_PERIOD
  /\ redo_list[2].ts - Head(undo_list).ts = MAX_TIME_PERIOD

(* This step pushes one sentinel of the given type and nothing else. *)
PushesSentinel(type) ==
  /\ Len(undo_list') = Len(undo_list) + 1
  /\ Tail(undo_list') = undo_list
  /\ Head(undo_list').is_group
  /\ Head(undo_list').type = type

(* C6. Nested groups flatten: in a properly nested run of begin_group and  *)
(* end_group calls that starts with no group open, with records in         *)
(* between, the outermost begin_group pushes one start sentinel and the    *)
(* matching end_group one end sentinel, both of the type given to the      *)
(* outermost begin_group; the inner calls push nothing, and a record       *)
(* pushes no sentinel.                                                     *)
C6_NestedGroupsFlatten ==
  [][/\ (last'.op = "start_group" /\ group = DT_UNDO_NONE) =>
          (group' \in Kinds /\ PushesSentinel(group'))
     /\ (last'.op = "start_group" /\ group # DT_UNDO_NONE) =>
          (undo_list' = undo_list /\ group' = group)
     /\ (last'.op = "end_group" /\ group_indent > 1) =>
          (undo_list' = undo_list /\ group' = group)
     /\ (last'.op = "end_group" /\ group_indent = 1) => PushesSentinel(group)
     /\ (last'.op = "record" /\ undo_list' # undo_list) => IsPlain(Head(undo_list'))
    ]_vars

(* C7. One-shot suppression: with the flag of disable_next set, a record   *)
(* adds no item, leaves both lists as they are, releases the data once     *)
(* when a free_data callback was given (and not at all otherwise) and      *)
(* resets the flag: the record asked after it is pushed as usual.          *)
C7_Suppression ==
  (Ready /\ disable_next) =>
    \A type \in Kinds, fd \in BOOLEAN, type2 \in Kinds, fd2 \in BOOLEAN :
      LET item == NewItem(nextId, type, FALSE, fd, now)
          item2 == NewItem(nextId + 1, type2, FALSE, fd2, now)
          s == undo_record(Self, item)
          s2 == undo_record(s, item2)
      IN /\ s.undo_list = undo_list
         /\ s.redo_list = redo_list
         /\ s.rel = (IF fd THEN <<item.id>> ELSE <<>>)
         /\ ~s.disable_next
         /\ s2.undo_list = <<item2>> \o undo_list
         /\ ~s2.disable_next

(* A record has just been suppressed: its data was released, it is in no   *)
(* list, and the flag is down again.                                       *)
C7_Witness ==
  /\ last.op = "record"
  /\ rel = <<nextId - 1>>
  /\ released[nextId - 1] = 1
  /\ ~disable_next
  /\ \A item \in Range(undo_list) \cup Range(redo_list) : item.id # nextId - 1

(* C8. Reentrancy drop: a record asked from inside an undo callback during *)
(* a perform returns without waiting for the mutex, adds no item to either *)
(* list and does not clear the redo list; the perform ends with the lists  *)
(* and the callbacks it would have had without that call, and unlocked.    *)
C8_ReentrancyDrop ==
  Ready =>
  \A filter \in Masks, action \in {DT_ACTION_UNDO, DT_ACTION_REDO},
     cb \in CallbackChoices \ {<<>>} :
    LET r == undo_do_undo_redo(Self, filter, action, cb)
        q == undo_do_undo_redo(Self, filter, action, <<>>)
    IN /\ ~r.blocked
       /\ ~r.locked
       /\ \A item \in Range(r.undo_list) \cup Range(r.redo_list) : item.id # cb[1].id
       /\ Len(r.undo_list) + Len(r.redo_list) = Len(undo_list) + Len(redo_list)
       /\ r.undo_list = q.undo_list
       /\ r.redo_list = q.redo_list
       /\ r.log = q.log

(* A redo whose callbacks each asked for a record has just ended: the item *)
(* it replayed is not alone in the undo list and the redo list still holds *)
(* an item.                                                                *)
C8_Witness ==
  /\ last.op = DT_ACTION_REDO
  /\ last.asked > 0
  /\ last.asked = Len(log)
  /\ Len(undo_list) >= 2
  /\ redo_list # <<>>
  /\ ~locked

(* How often id is in the sequence ids. *)
Times(ids, id) == Cardinality({i \in 1..Len(ids) : ids[i] = id})

(* C9. clear(filter): whatever the lists hold and whatever the filter,     *)
(* after the call both lists are empty and the data of every item whose    *)
(* type has a bit of the filter, and that has a free_data callback, was    *)
(* released.                                                               *)
C9_Clear ==
  Ready =>
  \A filter \in Masks :
    LET s == dt_undo_clear(Self, filter)
    IN /\ s.undo_list = <<>>
       /\ s.redo_list = <<>>
       /\ \A item \in Range(undo_list) \cup Range(redo_list) :
            (Matches(item, filter) /\ HasRelease(item)) => Times(s.rel, item.id) = 1

(* A clear has just emptied both lists and released some data, while an    *)
(* item recorded with a free_data callback is gone without a release.      *)
C9_Witness ==
  /\ last.op = "clear"
  /\ undo_list = <<>>
  /\ redo_list = <<>>
  /\ rel # <<>>
  /\ \E id \in Ids : id < nextId /\ released[id] = 0

(* C10. Payload lifecycle: an item that leaves the lists (it is in neither *)
(* list after the call) has its data released exactly once in that call    *)
(* when it has a free_data callback; no data is released twice; the data   *)
(* of an item that stays in a list, replayed or not, is not released.      *)
C10_PayloadLifecycle ==
  [][\A item \in Range(undo_list) \cup Range(redo_list) :
       /\ IF item \in Range(undo_list') \cup Range(redo_list')
          THEN Times(rel', item.id) = 0
          ELSE HasRelease(item) => Times(rel', item.id) = 1
       /\ released'[item.id] <= 1
    ]_vars

Visited(list, filter) ==
  SelectSeq(list, LAMBDA item : IsPlain(item) /\ Matches(item, filter))

(* C12. iterate(filter, visitor) reads only: it leaves both lists, the     *)
(* group, its depth and the flag of disable_next as they are and calls the *)
(* visitor exactly once for each plain item whose type has a bit of the    *)
(* filter, and for no other, going through the undo list from its front    *)
(* and then through the redo list from its front.                          *)
C12_IterateReadOnly ==
  Ready =>
  \A filter \in Masks :
    LET r == dt_undo_iterate(Self, filter, <<>>)
        visits == Applied(Visited(undo_list, filter) \o Visited(redo_list, filter),
                          DT_ITERATE)
    IN /\ r = [Self EXCEPT !.log = visits]
       /\ \A cb \in CallbackChoices :
            LET q == dt_undo_iterate(Self, filter, cb)
            IN /\ q.log = visits
               /\ q.undo_list = undo_list /\ q.redo_list = redo_list
               /\ q.group = group /\ q.group_indent = group_indent
               /\ ~q.locked /\ ~q.blocked

(* An iterate has just visited an item of the undo list and then one of    *)
(* the redo list, and has passed over a sentinel in the undo list.         *)
C12_Witness ==
  /\ last.op = "iterate"
  /\ last.asked = 0
  /\ Len(log) = 2
  /\ \E item \in Range(undo_list) : IsPlain(item) /\ item.id = log[1][1]
  /\ \E item \in Range(redo_list) : IsPlain(item) /\ item.id = log[2][1]
  /\ \E item \in Range(undo_list) : item.is_group

(* The engine as a perform finds it, with the flag of disable_next as dn. *)
SelfWith(dn) == [Self EXCEPT !.disable_next = dn]

(* C13. No match, no operation: when no item of the source list (the undo  *)
(* list for UNDO, the redo list for REDO) has a bit of the filter, the     *)
(* source list being empty included, perform calls nothing back and leaves *)
(* both lists exactly as they were.                                        *)
C13_NoMatchNoOp ==
  Ready =>
  \A filter \in Masks, action \in {DT_ACTION_UNDO, DT_ACTION_REDO},
     cb \in CallbackChoices, dn \in BOOLEAN :
    FirstMatch(GetFrom(Self, action), filter) = 0 =>
      LET r == undo_do_undo_redo(SelfWith(dn), filter, action, cb)
      IN /\ r.log = <<>>
         /\ r.undo_list = undo_list
         /\ r.redo_list = redo_list
         /\ r = SelfWith(dn)

(* An undo has just ended without a callback and without a move: all the   *)
(* items recorded so far are still in the undo list, none had a bit of the *)
(* filter.                                                                 *)
C13_Witness ==
  /\ last.op = DT_ACTION_UNDO
  /\ log = <<>>
  /\ redo_list = <<>>
  /\ Len(undo_list) >= 2
  /\ Len(undo_list) = nextId - 1
  /\ \E item \in Range(undo_list) : IsPlain(item)

(* The sentinels of list come in pairs of the same type, read from the     *)
(* front: every group in it is complete.                                   *)
RECURSIVE Paired(_)
Paired(list) ==
  IF list = <<>> THEN TRUE
  ELSE IF IsPlain(Head(list)) THEN Paired(Tail(list))
  ELSE /\ \E j \in 2..Len(list) : list[j].is_group
       /\ list[GroupEnd(list, 1)].type = Head(list).type
       /\ Paired(SubSeq(list, GroupEnd(list, 1) + 1, Len(list)))

(* The groups of a list whose sentinels are paired: each from its first    *)
(* sentinel to its second.                                                 *)
RECURSIVE GroupsOf(_)
GroupsOf(list) ==
  IF list = <<>> THEN {}
  ELSE IF IsPlain(Head(list)) THEN GroupsOf(Tail(list))
  ELSE {SubSeq(list, 1, GroupEnd(list, 1))}
         \cup GroupsOf(SubSeq(list, GroupEnd(list, 1) + 1, Len(list)))

(* The group g lies in list as a whole, in one piece, in either direction. *)
Whole(g, list) ==
  \E k \in 1..Len(list) :
    /\ k + Len(g) - 1 <= Len(list)
    /\ SubSeq(list, k, k + Len(g) - 1) \in {g, Reverse(g)}

(* The ids of the members of the group g. *)
Members(g) == {g[k].id : k \in 2..(Len(g) - 1)}

(* C14. Groups are never split by replay: from lists in which every group  *)
(* is complete, with no group open, a perform with any filter moves each   *)
(* group as a whole or not at all: afterwards its two sentinels and all    *)
(* its members are in the same list, in one piece, and the callback was    *)
(* called for all its members or for none, also when the members' types    *)
(* differ from the sentinels' type.                                        *)
C14_GroupsNeverSplit ==
  (Ready /\ group_indent = 0 /\ Paired(undo_list) /\ Paired(redo_list)) =>
    \A filter \in Masks, action \in {DT_ACTION_UNDO, DT_ACTION_REDO}, cb \in CallbackChoices :
      LET r == undo_do_undo_redo(Self, filter, action, cb)
      IN \A g \in GroupsOf(undo_list) \cup GroupsOf(redo_list) :
           /\ Whole(g, r.undo_list) \/ Whole(g, r.redo_list)
           /\ Members(g) \subseteq Called(r) \/ Members(g) \cap Called(r) = {}

(* C15. Sentinel pairing: in every state reached by disable_next, record,  *)
(* begin_group, end_group, perform and clear calls in which no group is    *)
(* open (the depth is 0), the sentinels of each list form matched pairs    *)
(* that are not nested: read from the front, each list holds an even       *)
(* number of sentinels, and the sentinels 2i-1 and 2i have the same type   *)
(* and enclose one transaction.                                            *)
C15_SentinelPairing ==
  group_indent = 0 => (Paired(undo_list) /\ Paired(redo_list))

(* C16. Replay conserves the items: a perform never makes, destroys or     *)
(* doubles an item.  After every perform the two lists together hold the   *)
(* items they held before, each item in one list only; the items moved are *)
(* the ones the call went through, one piece of the source list, and they  *)
(* were put in front of the destination list one by one in that order, so  *)
(* that the batch is at its front in reverse.                              *)
C16_Conservation ==
  Ready =>
  \A filter \in Masks, action \in {DT_ACTION_UNDO, DT_ACTION_REDO},
     cb \in CallbackChoices, dn \in BOOLEAN :
    LET r == undo_do_undo_redo(SelfWith(dn), filter, action, cb)
        from == GetFrom(Self, action)
        to == GetTo(Self, action)
        rfrom == GetFrom(r, action)
        rto == GetTo(r, action)
        n == Len(rto) - Len(to)
        moved == Reverse(SubSeq(rto, 1, n))
        stays(item) == item \notin Range(moved)
    IN /\ n >= 0
       /\ rto = Reverse(moved) \o to
       /\ rfrom = SelectSeq(from, stays)
       /\ Len(rfrom) + n = Len(from)
       /\ n > 0 => \E k \in 1..Len(from) : SubSeq(from, k, k + n - 1) = moved
       /\ Range(rfrom) \cup Range(rto) = Range(from) \cup Range(to)
       /\ Cardinality({item.id : item \in Range(rfrom) \cup Range(rto)})
            = Len(rfrom) + Len(rto)
       /\ r.log = Applied(SelectSeq(moved, IsPlain), action)

(* An undo has just moved a group of three items: they are alone in the    *)
(* redo list, the oldest in front, and the member was called back.         *)
C16_Witness ==
  /\ last.op = DT_ACTION_UNDO
  /\ undo_list = <<>>
  /\ Len(redo_list) = 3
  /\ redo_list[1].is_group /\ IsPlain(redo_list[2]) /\ redo_list[3].is_group
  /\ redo_list[1].id < redo_list[2].id /\ redo_list[2].id < redo_list[3].id
  /\ log = <<<<redo_list[2].id, DT_ACTION_UNDO>>>>

(* The callbacks of calls, taken backwards and given DT_ACTION_REDO. *)
Redone(calls) ==
  [i \in 1..Len(calls) |-> <<calls[Len(calls) + 1 - i][1], DT_ACTION_REDO>>]

(* C20. Redo inverts undo in general: whatever the two lists hold (any     *)
(* types and timestamps, complete groups, no group open) and whatever the  *)
(* filter, an undo followed at once by a redo with the same filter moves   *)
(* back exactly the items the undo moved, calls them back with REDO in the *)
(* reverse of the undo's order, and leaves both lists with the same items  *)
(* in the same order as before the undo.                                   *)
C20_RedoInvertsUndo ==
  (Ready /\ group_indent = 0 /\ Paired(undo_list) /\ Paired(redo_list)) =>
    \A filter \in Masks, cb \in CallbackChoices :
      LET u == undo_do_undo_redo(Self, filter, DT_ACTION_UNDO, cb)
          r == undo_do_undo_redo(u, filter, DT_ACTION_REDO, cb)
      IN /\ r.undo_list = undo_list
         /\ r.redo_list = redo_list
         /\ r.log = u.log \o Redone(u.log)

(* The batch an undo with this filter takes is at the front of the undo    *)
(* list and is a complete group headed by a matching sentinel, or a run of *)
(* plain items, each less than MAX_TIME_PERIOD from the last of the run,   *)
(* that the front of the redo list cannot join: the redo list is empty or  *)
(* its first item has no bit of the filter.                                *)
Invertible(filter) ==
  /\ FirstMatch(undo_list, filter) = 1
  /\ \/ undo_list[1].is_group
     \/ LET j == RunEnd(undo_list, filter, 1)
        IN /\ \A k \in 1..j : IsPlain(undo_list[k])
           /\ \A k \in 1..j : InPeriod(undo_list[k], undo_list[j].ts)
           /\ redo_list = <<>> \/ ~Matches(redo_list[1], filter)

(* C20, amended. With every group complete and no group open, when the     *)
(* first item of the undo list has a bit of the filter and the batch is a  *)
(* whole group headed by that item, or a run of plain items all less than  *)
(* 0.5 s from its last item while the front of the redo list has no bit of *)
(* the filter (or the redo list is empty),                                 *)
(* an undo followed at once by a redo with the same filter moves back      *)
(* exactly the items the undo moved, calls them back with REDO in the      *)
(* reverse of the undo's order, and leaves both lists as they were.        *)
C20_RedoInvertsFrontBatch ==
  (Ready /\ group_indent = 0 /\ Paired(undo_list) /\ Paired(redo_list)) =>
    \A filter \in Masks, cb \in CallbackChoices :
      Invertible(filter) =>
        LET u == undo_do_undo_redo(Self, filter, DT_ACTION_UNDO, cb)
            r == undo_do_undo_redo(u, filter, DT_ACTION_REDO, cb)
        IN /\ u.undo_list # undo_list
           /\ r.undo_list = undo_list
           /\ r.redo_list = redo_list
           /\ r.log = u.log \o Redone(u.log)

(* A redo has just brought back the two plain items an undo had moved in   *)
(* one batch, the older first; the item under them, of the same type but   *)
(* MAX_TIME_PERIOD older than the newest, was not part of the batch.       *)
C20_Witness ==
  /\ last.op = DT_ACTION_REDO
  /\ redo_list = <<>>
  /\ Len(undo_list) = 3
  /\ \A k \in 1..3 : IsPlain(undo_list[k]) /\ undo_list[k].type = undo_list[1].type
  /\ log = <<<<undo_list[2].id, DT_ACTION_REDO>>, <<undo_list[1].id, DT_ACTION_REDO>>>>
  /\ undo_list[1].ts - undo_list[3].ts >= MAX_TIME_PERIOD

(* C17. A record is dropped only during replay: when a thread's record     *)
(* (made with disable_next not set) was dropped at the test of the locked  *)
(* flag, the call that held the mutex at that moment was an undo or a redo *)
(* -- never a record, a clear or an iterate of another thread, which the   *)
(* record would wait for.                                                  *)
C17_DroppedOnlyDuringReplay ==
  \A t \in Threads : thread[t].lost \in {"none", DT_ACTION_UNDO, DT_ACTION_REDO}

(* The thread is at a point where its next step writes one of the lists,   *)
(* group or group_indent.                                                  *)
Modifying(t) ==
  thread[t].pc \in {"rec_body", "pf_scan", "pf_group", "pf_plain", "cl_body",
                    "sg_open", "sg_inc", "eg_dec", "eg_reset"}

(* The step changes one of the lists, group or group_indent. *)
Modifies ==
  \/ undo_list' # undo_list
  \/ redo_list' # redo_list
  \/ group' # group
  \/ group_indent' # group_indent

(* C18. Lock discipline: in every interleaving of the two threads, a step  *)
(* that changes the undo list, the redo list, group or group_indent is a   *)
(* step of the thread that holds the mutex at that moment, and the two     *)
(* threads are never both at a point where they modify one of them.        *)
C18_LockDiscipline ==
  /\ [][Modifies => \E t \in Threads : thread'[t] # thread[t] /\ mutex = {t}]_vars
  /\ [](\A t, u \in Threads : (Modifying(t) /\ Modifying(u)) => t = u)

(* The thread is in LOCK and cannot go on: another holds the mutex. *)
Blocked(t) ==
  /\ thread[t].pc \in {"rec_lock", "pf_lock", "cl_lock", "it_lock"}
  /\ mutex # {}

(* The thread has taken the mutex and not yet given it back. *)
Inside(t) ==
  thread[t].pc \in {"rec_body", "pf_scan", "pf_group", "pf_plain", "pf_unlock",
                    "cl_body", "it_body"}

(* The step is the return of a call of thread t that held the mutex. *)
ReturnsFromLock(t) == mutex = {t} /\ thread[t].pc # "idle" /\ thread'[t].pc = "idle"

(* C19. Completion and lock release: with callbacks that return and at     *)
(* most ask for a record, and fair scheduling, every record, perform,      *)
(* clear or iterate of either thread returns; the passages of a replay     *)
(* loop never outnumber the items the source list had when the mutex was   *)
(* taken; the step that returns from a call that held the mutex leaves the *)
(* mutex free and locked FALSE, and a thread in no call does not hold it;  *)
(* the mutex is held exactly by a thread between its LOCK and its UNLOCK,  *)
(* so the threads are never all blocked on it.                             *)
C19_CompletionAndRelease ==
  /\ \A t \in Threads : (thread[t].pc # "idle") ~> (thread[t].pc = "idle")
  /\ [](\A t \in Threads : thread[t].steps <= thread[t].len)
  /\ [][\A t \in Threads : ReturnsFromLock(t) => (mutex' = {} /\ ~locked')]_vars
  /\ [](\A t \in Threads : (t \in mutex) <=> Inside(t))
  /\ [](locked <=> mutex # {})
  /\ [](~ \A t \in Threads : Blocked(t))

(* An undo of one thread has moved the items of the undo list, one in each *)
(* passage, and is about to unlock, while the other thread waits for the   *)
(* mutex in a clear.                                                       *)
C19_Witness ==
  \E t, u \in Threads :
    /\ thread[t].pc = "pf_unlock" /\ thread[t].op = DT_ACTION_UNDO
    /\ thread[t].len > 1 /\ thread[t].steps = thread[t].len
    /\ Len(redo_list) = thread[t].len
    /\ mutex = {t}
    /\ thread[u].pc = "cl_lock"

====
